---- MODULE Spec2Model ----
(***************************************************************************)
(* The Eolia climate entity (EoliaClimate) as a state machine.             *)
(*                                                                         *)
(* The repository holds the entity twice: src/climate.py, written against *)
(* the blocking `requests` library, and                                    *)
(* src/custom_components/eolia/climate.py, the same class rewritten with   *)
(* async/await.  `variant` says which of the two an instance is.           *)
(*                                                                         *)
(*  - "sync":  every method runs in the thread of its caller and blocks    *)
(*    in session.get/put/post.  The class holds no lock, so a second       *)
(*    caller may enter a method while the first is blocked in an HTTP      *)
(*    call.  A step of the model is the code a caller runs between two     *)
(*    HTTP calls; the HTTP calls are the points where callers interleave.  *)
(*  - "async": update() evaluates self._get(url).json(), an attribute of   *)
(*    a coroutine object, and _set_put() awaits the value of _get_json(),  *)
(*    which returns the module `json`.  Both raise before any coroutine of *)
(*    the request layer is started, so a call is one step without I/O.     *)
(*                                                                         *)
(* Python values are tagged tuples: None, PyBool(b), PyInt(n), PyFloat(t)  *)
(* with t in tenths of a unit, PyStr(s).  A dict is a function from its    *)
(* keys (strings) to values.                                               *)
(*                                                                         *)
(* The call stack of the request layer: _get/_put/_post call themselves in *)
(* return position (`result = self._get(url); return result`), so a frame  *)
(* that waits for its retry only hands the retry's result on and is not    *)
(* represented.  A frame that waits for the _login() it called is: `pc`    *)
(* says what is in flight and `depth` counts the _post frames of nested    *)
(* logins that will post the login again when the login they wait for      *)
(* returns.                                                                *)
(***************************************************************************)
EXTENDS Integers, Sequences, FiniteSets, TLC

VARIABLES
    variant,            \* "sync" (src/climate.py) or "async" (custom_components)
    _json,              \* self._json: the last status dict, mutated by setters
    _temp,              \* self._temp: the cached target temperature
    _operation_token,   \* self._operation_token
    pc,                 \* per caller: "idle", "request" (GET/PUT in flight), "login"
    call,               \* per caller: the method it is in, its argument, its issue number
    data,               \* per caller: the body of its request (NoData for a GET)
    depth,              \* per caller: _post frames of nested logins waiting to re-post
    relogin,            \* per caller: the current call has called _login()
    outcome,            \* how the call that finished last ended
    issued,             \* number of calls started so far
    rcvd_token,         \* operation_token of the last response that carried the key
    result              \* the response _get/_put handed to response.json() last: its status

vars == <<variant, _json, _temp, _operation_token, pc, call, data, depth,
          relogin, outcome, issued, rcvd_token, result>>

---------------------------------------------------------------------------
(* Bounds of the model *)

\* calls (update or a setter) started in one behaviour
MaxCalls == 2
\* nested logins: the server answers 401 to a login only below this depth
MaxLoginDepth == 1

\* the threads of the host in which methods of one entity run
Callers == {1, 2}

---------------------------------------------------------------------------
(* Python values *)

None == <<"none">>
PyBool(b) == <<"bool", b>>
PyInt(n) == <<"int", n>>
PyFloat(t) == <<"float", t>>
PyStr(s) == <<"str", s>>

IsNum(v) == v[1] \in {"int", "float"}
Tenths(v) == IF v[1] = "int" THEN 10 * v[2] ELSE v[2]

\* x != 0
NeZero(v) == ~(IsNum(v) /\ Tenths(v) = 0) /\ v # PyBool(FALSE)

\* bool(x)
Truthy(v) ==
    CASE v[1] = "none" -> FALSE
      [] v[1] = "bool" -> v[2]
      [] v[1] \in {"int", "float"} -> v[2] # 0
      [] v[1] = "str" -> v[2] # ""

Digits == <<"0", "1", "2", "3", "4", "5", "6", "7", "8", "9">>

RECURSIVE IntStr(_)
IntStr(n) ==
    IF n < 10 THEN Digits[n + 1] ELSE IntStr(n \div 10) \o Digits[(n % 10) + 1]

\* str(x) of a non-negative number, of a str, of None
str(v) ==
    CASE v[1] = "int" -> IntStr(v[2])
      [] v[1] = "float" -> IntStr(v[2] \div 10) \o "." \o IntStr(v[2] % 10)
      [] v[1] = "str" -> v[2]
      [] v[1] = "none" -> "None"

\* d.get(k)
Get(d, k) == IF k \in DOMAIN d THEN d[k] ELSE None

\* d[k] = v
Put(d, k, v) == [x \in DOMAIN d \cup {k} |-> IF x = k THEN v ELSE d[x]]

---------------------------------------------------------------------------
(* Module-level tables: a dict is kept as the sequence of its items.  The  *)
(* Japanese labels of the source are written in Latin transcription: the   *)
(* program only compares them for equality.                                *)

\* _HVAC_MODES with two keys for "cool"
HvacModesNotInjective(v) ==
    << <<PyStr("Stop"), PyStr("off")>>,
       <<PyStr("Heating"), PyStr("cool")>>,
       <<PyStr("Cooling"), PyStr("cool")>>,
       <<PyStr("Auto"), PyStr("auto")>>,
       <<PyStr("Dehumidifying"), PyStr("dry")>>,
       <<PyStr("Nanoe"), PyStr("fan_only")>> >>

_HVAC_MODES(v) ==
    IF v = "sync"
    THEN << <<PyStr("Stop"), PyStr("off")>>,
            <<PyStr("Heating"), PyStr("heat")>>,
            <<PyStr("Cooling"), PyStr("cool")>>,
            <<PyStr("Auto"), PyStr("auto")>>,
            <<PyStr("Dehumidifying"), PyStr("dry")>>,
            <<PyStr("Nanoe"), PyStr("fan_only")>> >>
    ELSE << <<PyStr("Auto"), PyStr("auto")>>,
            <<PyStr("Nanoe"), PyStr("fan_only")>>,
            <<PyStr("Cooling"), PyStr("cool")>>,
            <<PyStr("Dehumidifying"), PyStr("dry")>>,
            <<PyStr("Heating"), PyStr("heat")>>,
            <<PyStr("Stop"), PyStr("off")>> >>

_PRESET_MODES(v) ==
    IF v = "sync"
    THEN << <<PyStr("Stop"), PyStr("ofu")>>,
            <<PyStr("Heating"), PyStr("danbou")>>,
            <<PyStr("Cooling"), PyStr("reibou")>>,
            <<PyStr("Auto"), PyStr("ooto")>>,
            <<PyStr("Dehumidifying"), PyStr("dorai")>>,
            <<PyStr("CoolDehumidifying"), PyStr("reibou-joshitsu")>>,
            <<PyStr("Nanoe"), PyStr("fan-nomi")>>,
            <<PyStr("ClothesDryer"), PyStr("irui-kansou")>>,
            <<PyStr("Cleaning"), PyStr("osouji")>>,
            <<PyStr("NanoexCleaning"), PyStr("odekake-kuriin")>> >>
    ELSE << <<PyStr("Auto"), PyStr("ooto")>>,
            <<PyStr("Nanoe"), PyStr("nanoii-soufuu")>>,
            <<PyStr("Blast"), PyStr("soufuu")>>,
            <<PyStr("Cooling"), PyStr("reibou")>>,
            <<PyStr("Dehumidifying"), PyStr("dorai")>>,
            <<PyStr("Heating"), PyStr("danbou")>>,
            <<PyStr("CoolDehumidifying"), PyStr("reibou-joshitsu")>>,
            <<PyStr("ClothesDryer"), PyStr("irui-kansou")>>,
            <<PyStr("KeepMode"), PyStr("daburu-ondo-settei")>>,
            <<PyStr("Cleaning"), PyStr("osouji")>>,
            <<PyStr("NanoexCleaning"), PyStr("odekake-kuriin")>>,
            <<PyStr("Stop"), PyStr("ofu")>> >>

_FAN_MODES ==
    << <<PyInt(0), PyStr("jidou")>>,
       <<PyInt(2), PyStr("1")>>,
       <<PyInt(3), PyStr("2")>>,
       <<PyInt(4), PyStr("3")>>,
       <<PyInt(5), PyStr("4")>> >>

_SWING_MODES ==
    << <<PyStr("auto"), PyStr("jidou")>>,
       <<PyStr("to_left"), PyStr("hidari")>>,
       <<PyStr("nearby_left"), PyStr("chotto-hidari")>>,
       <<PyStr("front"), PyStr("chuuou")>>,
       <<PyStr("nearby_right"), PyStr("chotto-migi")>>,
       <<PyStr("to_right"), PyStr("migi")>> >>

\* the key of the first item whose value is val, else None
get_key(dict, val) ==
    LET hits == {i \in 1..Len(dict) : dict[i][2] = val}
    IN  IF hits = {} THEN None
        ELSE dict[CHOOSE i \in hits : \A j \in hits : i <= j][1]

\* HVACMode.OFF / HVAC_MODE_OFF
HVAC_MODE_OFF == PyStr("off")

\* dict.get(key, default) on a table
dict_get(dict, key, default) ==
    LET hits == {i \in 1..Len(dict) : dict[i][1] = key}
    IN  IF hits = {} THEN default ELSE dict[CHOOSE i \in hits : TRUE][2]

---------------------------------------------------------------------------
(* Properties of the entity *)

min_temp(v) == IF v = "sync" THEN PyInt(16) ELSE PyFloat(160)
max_temp(v) == IF v = "sync" THEN PyInt(30) ELSE PyFloat(300)

\* self._temp in __init__
InitTemp(v) == IF v = "sync" THEN PyInt(25) ELSE PyFloat(250)

\* the property hvac_mode, read from self._json = json
hvac_mode_property(v, json) ==
    dict_get(_HVAC_MODES(v), Get(json, "operation_mode"), HVAC_MODE_OFF)

\* extra_state_attributes without the test for 999
OutsideTempAsCached(json) == Get(json, "outside_temp")

\* extra_state_attributes["outside_temp"], read from self._json = json
outside_temp_attribute(json) ==
    LET outside_temp == Get(json, "outside_temp")
    IN  IF IsNum(outside_temp) /\ Tenths(outside_temp) = 9990
        THEN None ELSE outside_temp

\* quote(appliance_id)
_appliance_id == PyStr("appliance")

---------------------------------------------------------------------------
(* The environment: what callers pass in and what the server answers *)

\* hvac_mode values a caller passes ("heat_cool" is not in _HVAC_MODES)
HvacInputs == {PyStr("off"), PyStr("cool"), PyStr("heat_cool")}

\* preset_mode values ("soufuu" is a key of the async table only)
PresetInputs == {PyStr("off"), PyStr("ofu"), PyStr("reibou-joshitsu"),
                 PyStr("soufuu")}

\* fan_mode values ("9" is not in _FAN_MODES)
FanInputs == {PyStr("1"), PyStr("9")}

\* swing_mode values ("ue" is not in _SWING_MODES)
SwingInputs == {PyStr("hidari"), PyStr("ue")}

\* kwargs["temperature"]
TempInputs == {PyFloat(100), PyFloat(220), PyFloat(400)}

\* a status object as the server sends it; the outside temperature is
\* measured while the appliance heats and is 999 otherwise
StatusBody(mode, temp, tok) ==
    LET base == [operation_status |-> PyBool(TRUE),
                 operation_mode |-> PyStr(mode),
                 temperature |-> temp,
                 wind_volume |-> PyInt(2),
                 wind_direction_horizon |-> PyStr("auto"),
                 nanoex |-> PyBool(FALSE),
                 timer_value |-> PyInt(0),
                 inside_temp |-> PyInt(24),
                 outside_temp |-> IF mode = "Heating" THEN PyInt(18)
                                  ELSE PyInt(999),
                 device_errstatus |-> PyBool(FALSE)]
    IN  IF tok = <<"absent">> THEN base ELSE Put(base, "operation_token", tok)

\* an error object: none of the status fields
ErrorBody == [code |-> PyStr("E"), message |-> PyStr("error")]

\* the appliance heats to 22.0, or runs the fan and reports temperature 0
BodyModes == {<<"Heating", PyFloat(220)>>, <<"Nanoe", PyInt(0)>>}
BodyTokens == {<<"absent">>, PyStr("abc"), None}

\* the JSON objects a response body decodes to
Bodies ==
    {StatusBody(m[1], m[2], tk) : m \in BodyModes, tk \in BodyTokens}
        \cup {ErrorBody}

\* a body that is no JSON, and a body that is JSON but no object
NotJson == "not-json"
NotObject == "not-object"

\* what a request is answered with when the status is not 401: the status
\* and the body.  A status object comes with 200, an error object with 500.
Answers == {<<200, b>> : b \in Bodies \ {ErrorBody}} \cup {<<500, ErrorBody>>}

\* the same, with a body that does not decode to an object
BadAnswers == {<<200, NotObject>>, <<500, NotJson>>}

\* statuses of a login answer other than 401
LoginStatus == {200, 403}

---------------------------------------------------------------------------
(* Bookkeeping of calls *)

NoCall == [op |-> "none", arg |-> None, seq |-> 0, before |-> <<>>]
NoResult == [status_code |-> 0]
NoData == <<>>
Never == <<"never">>

Setters == {"set_hvac_mode", "set_preset_mode", "set_fan_mode",
            "set_swing_mode", "set_temperature"}

\* a call runs in the first free thread
CanStart(c) ==
    /\ pc[c] = "idle"
    /\ \A d \in Callers : d < c => pc[d] # "idle"
    /\ issued < MaxCalls

\* the call ends (returns or raises) with outcome o
Finish(c, o) ==
    /\ pc' = [pc EXCEPT ![c] = "idle"]
    /\ call' = [call EXCEPT ![c] = NoCall]
    /\ data' = [data EXCEPT ![c] = NoData]
    /\ depth' = [depth EXCEPT ![c] = 0]
    /\ relogin' = [relogin EXCEPT ![c] = FALSE]
    /\ outcome' = o

\* the caller blocks in session.get (body NoData) or session.put
Send(c, op, arg, body) ==
    /\ pc' = [pc EXCEPT ![c] = "request"]
    /\ call' = [call EXCEPT ![c] = [op |-> op, arg |-> arg, seq |-> issued + 1,
                                    before |-> _json]]
    /\ data' = [data EXCEPT ![c] = body]
    /\ UNCHANGED <<depth, relogin, outcome>>

---------------------------------------------------------------------------
(* EoliaClimate *)

Init ==
    /\ variant \in {"sync", "async"}
    /\ _json = <<>>
    /\ _temp = InitTemp(variant)
    /\ _operation_token = None
    /\ pc = [c \in Callers |-> "idle"]
    /\ call = [c \in Callers |-> NoCall]
    /\ data = [c \in Callers |-> NoData]
    /\ depth = [c \in Callers |-> 0]
    /\ relogin = [c \in Callers |-> FALSE]
    /\ outcome = "none"
    /\ issued = 0
    /\ rcvd_token = Never
    /\ result = NoResult

\* _get_json without the filter: the whole of self._json is sent
GetJsonUnfiltered(v, json, token) ==
    IF Truthy(token)
    THEN Put(Put(json, "operation_token", token), "appliance_id", _appliance_id)
    ELSE json

\* the module `json` of the standard library
JsonModule == <<"module", "json">>

\* the payload of a PUT.  In the sync variant the local name `json` is the
\* filtered dict; in the async variant the dict is `filtered_json` and
\* `return json` returns the module.
_get_json(v, json, token) ==
    LET keys == {"nanoex", "operation_status", "airquality", "wind_volume",
                 "temperature", "operation_mode", "wind_direction",
                 "timer_value", "air_flow", "wind_direction_horizon"}
        filtered == [k \in DOMAIN json \cap keys |-> json[k]]
        filtered_json ==
            IF Truthy(token)
            THEN Put(Put(filtered, "operation_token", token),
                     "appliance_id", _appliance_id)
            ELSE filtered
    IN  IF v = "sync" THEN filtered_json ELSE JsonModule

\* _set_json that never stores the token of the response
SetJsonKeepsToken(json_data, token, temp) ==
    << token,
       IF NeZero(Get(json_data, "temperature"))
       THEN Get(json_data, "temperature") ELSE temp,
       json_data >>

\* _set_json without the test for zero
SetJsonStoresZero(json_data, token, temp) ==
    << IF "operation_token" \in DOMAIN json_data
       THEN Get(json_data, "operation_token") ELSE token,
       Get(json_data, "temperature"),
       json_data >>

\* _set_json that takes the token from every response, with or without the key
SetJsonTokenAlways(json_data, token, temp) ==
    << Get(json_data, "operation_token"),
       IF NeZero(Get(json_data, "temperature"))
       THEN Get(json_data, "temperature") ELSE temp,
       json_data >>

\* what _set_json stores: <<self._operation_token, self._temp, self._json>>
_set_json(json_data, token, temp) ==
    << IF "operation_token" \in DOMAIN json_data
       THEN Get(json_data, "operation_token") ELSE token,
       IF NeZero(Get(json_data, "temperature"))
       THEN Get(json_data, "temperature") ELSE temp,
       json_data >>

TempModes == {PyStr("Heating"), PyStr("Cooling"), PyStr("Auto"),
              PyStr("CoolDehumidifying")}

\* _set_put that does not reset the temperature field to "0" first
SetPutKeepsField(v, json, temp) ==
    IF "operation_mode" \notin DOMAIN json \/ "temperature" \notin DOMAIN json
    THEN [err |-> "KeyError", json |-> json, temp |-> temp]
    ELSE IF json["operation_mode"] \notin
                {PyStr("Heating"), PyStr("Cooling"), PyStr("Auto"),
                 PyStr("CoolDehumidifying")}
    THEN [err |-> "none", json |-> json, temp |-> temp]
    ELSE IF ~IsNum(temp)
    THEN [err |-> "TypeError", json |-> json, temp |-> temp]
    ELSE LET t1 == IF Tenths(temp) < Tenths(min_temp(v))
                   THEN min_temp(v) ELSE temp
             t2 == IF Tenths(t1) > Tenths(max_temp(v))
                   THEN max_temp(v) ELSE t1
         IN  [err |-> "none",
              json |-> Put(json, "temperature", PyStr(str(t2))),
              temp |-> t2]

\* _set_put without the comparison with max_temp
SetPutNoUpperClamp(v, json, temp) ==
    LET j0 == Put(json, "temperature", PyStr("0"))
    IN  IF "operation_mode" \notin DOMAIN j0
        THEN [err |-> "KeyError", json |-> j0, temp |-> temp]
        ELSE IF j0["operation_mode"] \notin
                    {PyStr("Heating"), PyStr("Cooling"), PyStr("Auto"),
                     PyStr("CoolDehumidifying")}
        THEN [err |-> "none", json |-> j0, temp |-> temp]
        ELSE IF ~IsNum(temp)
        THEN [err |-> "TypeError", json |-> j0, temp |-> temp]
        ELSE LET t1 == IF Tenths(temp) < Tenths(min_temp(v))
                       THEN min_temp(v) ELSE temp
             IN  [err |-> "none",
                  json |-> Put(j0, "temperature", PyStr(str(t1))),
                  temp |-> t1]

\* _set_put that reads the mode with .get: no KeyError without operation_mode
SetPutModeOptional(v, json, temp) ==
    LET j0 == Put(json, "temperature", PyStr("0"))
    IN  IF Get(j0, "operation_mode") \notin
                {PyStr("Heating"), PyStr("Cooling"), PyStr("Auto"),
                 PyStr("CoolDehumidifying")}
        THEN [err |-> "none", json |-> j0, temp |-> temp]
        ELSE IF ~IsNum(temp)
        THEN [err |-> "TypeError", json |-> j0, temp |-> temp]
        ELSE LET t1 == IF Tenths(temp) < Tenths(min_temp(v))
                       THEN min_temp(v) ELSE temp
                 t2 == IF Tenths(t1) > Tenths(max_temp(v))
                       THEN max_temp(v) ELSE t1
             IN  [err |-> "none",
                  json |-> Put(j0, "temperature", PyStr(str(t2))),
                  temp |-> t2]

\* self._temp < self.min_temp is defined: both are numbers (sync);
\* float(self._temp) is defined (async, where _temp is never a str)
Comparable(v, temp) == IsNum(temp)

\* _set_put up to the PUT: the temperature field and the clamp.
\* err is the exception raised on the way, "none" if none.
SetPutLocal(v, json, temp) ==
    LET j0 == Put(json, "temperature", PyStr("0"))
    IN  IF "operation_mode" \notin DOMAIN j0
        THEN [err |-> "KeyError", json |-> j0, temp |-> temp]
        ELSE IF j0["operation_mode"] \notin TempModes
        THEN [err |-> "none", json |-> j0, temp |-> temp]
        ELSE IF ~Comparable(v, temp)
        THEN [err |-> "TypeError", json |-> j0, temp |-> temp]
        ELSE LET t1 == IF Tenths(temp) < Tenths(min_temp(v))
                       THEN min_temp(v) ELSE temp
                 t2 == IF Tenths(t1) > Tenths(max_temp(v))
                       THEN max_temp(v) ELSE t1
             IN  [err |-> "none",
                  json |-> Put(j0, "temperature", PyStr(str(t2))),
                  temp |-> t2]

\* _set_put, entered by setter op(arg) of caller c after the setter has
\* changed self._json to json and self._temp to temp
_set_put(c, op, arg, json, temp) ==
    LET r == SetPutLocal(variant, json, temp)
        body == _get_json(variant, r.json, _operation_token)
    IN  /\ _json' = r.json
        /\ _temp' = r.temp
        /\ issued' = issued + 1
        /\ UNCHANGED <<variant, _operation_token, rcvd_token, result>>
        /\ IF r.err # "none"
           THEN Finish(c, r.err)
           ELSE IF variant = "async"
           \* `await self._get_json()`: what _get_json returns is no awaitable
           THEN Finish(c, "TypeError")
           ELSE Send(c, op, arg, body)

update(c) ==
    /\ CanStart(c)
    /\ issued' = issued + 1
    /\ UNCHANGED <<variant, _json, _temp, _operation_token, rcvd_token, result>>
    /\ IF variant = "async"
       \* self._get(url).json(): a coroutine object has no attribute json
       THEN Finish(c, "AttributeError")
       ELSE Send(c, "update", None, NoData)

\* set_hvac_mode that stores the key of every mode, the key of off as well
SetHvacModeStoresStop(c, hvac_mode) ==
    /\ CanStart(c)
    /\ LET j == Put(Put(_json, "operation_status",
                        PyBool(hvac_mode # HVAC_MODE_OFF)),
                    "operation_mode",
                    get_key(_HVAC_MODES(variant), hvac_mode))
       IN  _set_put(c, "set_hvac_mode", hvac_mode, j, _temp)

set_hvac_mode(c, hvac_mode) ==
    /\ CanStart(c)
    /\ LET j == IF hvac_mode = HVAC_MODE_OFF
                THEN Put(_json, "operation_status", PyBool(FALSE))
                ELSE Put(Put(_json, "operation_status", PyBool(TRUE)),
                         "operation_mode",
                         get_key(_HVAC_MODES(variant), hvac_mode))
       IN  _set_put(c, "set_hvac_mode", hvac_mode, j, _temp)

set_preset_mode(c, preset_mode) ==
    /\ CanStart(c)
    /\ LET j == IF preset_mode \in {HVAC_MODE_OFF, PyStr("ofu")}
                THEN Put(_json, "operation_status", PyBool(FALSE))
                ELSE Put(Put(_json, "operation_status", PyBool(TRUE)),
                         "operation_mode",
                         get_key(_PRESET_MODES(variant), preset_mode))
       IN  _set_put(c, "set_preset_mode", preset_mode, j, _temp)

\* set_fan_mode that stores the label it is given, without the reverse lookup
SetFanModeStoresLabel(c, fan_mode) ==
    /\ CanStart(c)
    /\ _set_put(c, "set_fan_mode", fan_mode,
                Put(_json, "wind_volume", fan_mode), _temp)

set_fan_mode(c, fan_mode) ==
    /\ CanStart(c)
    /\ _set_put(c, "set_fan_mode", fan_mode,
                Put(_json, "wind_volume", get_key(_FAN_MODES, fan_mode)), _temp)

set_swing_mode(c, swing_mode) ==
    /\ CanStart(c)
    /\ _set_put(c, "set_swing_mode", swing_mode,
                Put(_json, "wind_direction_horizon",
                    get_key(_SWING_MODES, swing_mode)), _temp)

set_temperature(c, temperature) ==
    /\ CanStart(c)
    /\ _set_put(c, "set_temperature", temperature, _json, temperature)

---------------------------------------------------------------------------
(* The request layer: _get, _put, _post, _login (sync) *)

\* the GET or PUT is answered 401: _login() posts the credentials
RequestUnauthorized(c) ==
    /\ pc[c] = "request"
    /\ pc' = [pc EXCEPT ![c] = "login"]
    /\ relogin' = [relogin EXCEPT ![c] = TRUE]
    /\ UNCHANGED <<result, variant, _json, _temp, _operation_token, call, data, depth,
                   outcome, issued, rcvd_token>>

\* the login is answered 401: _post calls _login() again, then will post again
LoginUnauthorized(c) ==
    /\ pc[c] = "login"
    /\ depth[c] < MaxLoginDepth
    /\ depth' = [depth EXCEPT ![c] = @ + 1]
    /\ UNCHANGED <<result, variant, _json, _temp, _operation_token, pc, call, data,
                   relogin, outcome, issued, rcvd_token>>

\* the login is answered with another status: _post returns the response, which
\* _login's caller drops.  A waiting _post posts the login again; with none
\* waiting, _get/_put calls itself and sends the request again.
LoginAnswered(c, status) ==
    /\ pc[c] = "login"
    /\ IF depth[c] > 0
       THEN /\ depth' = [depth EXCEPT ![c] = @ - 1]
            /\ UNCHANGED pc
       ELSE /\ pc' = [pc EXCEPT ![c] = "request"]
            /\ UNCHANGED depth
    /\ UNCHANGED <<result, variant, _json, _temp, _operation_token, call, data,
                   relogin, outcome, issued, rcvd_token>>

\* RequestAnswered that merges the response to a PUT into self._json field by
\* field
RequestAnsweredMerging(c, status, body) ==
    /\ pc[c] = "request"
    /\ LET s == _set_json(body, _operation_token, _temp)
       IN  /\ _operation_token' = s[1]
           /\ _temp' = s[2]
           /\ _json' = IF call[c].op \in Setters
                       THEN [k \in DOMAIN _json \cup DOMAIN body |->
                                IF k \in DOMAIN body THEN body[k] ELSE _json[k]]
                       ELSE s[3]
    /\ rcvd_token' = IF "operation_token" \in DOMAIN body
                     THEN body["operation_token"] ELSE rcvd_token
    /\ result' = [status_code |-> status]
    /\ Finish(c, "ok")
    /\ UNCHANGED <<variant, issued>>

\* the GET or PUT is answered with another status and a body that decodes to
\* a JSON object: update and _set_put pass it to _set_json
RequestAnswered(c, status, body) ==
    /\ pc[c] = "request"
    /\ LET s == _set_json(body, _operation_token, _temp)
       IN  /\ _operation_token' = s[1]
           /\ _temp' = s[2]
           /\ _json' = s[3]
    /\ rcvd_token' = IF "operation_token" \in DOMAIN body
                     THEN body["operation_token"] ELSE rcvd_token
    /\ result' = [status_code |-> status]
    /\ Finish(c, "ok")
    /\ UNCHANGED <<variant, issued>>

\* the body does not decode (.json() raises), or decodes to something that
\* has no .get (_set_json raises before its first assignment)
RequestUndecodable(c, status, body) ==
    /\ pc[c] = "request"
    /\ result' = [status_code |-> status]
    /\ Finish(c, IF body = NotJson THEN "JSONDecodeError" ELSE "AttributeError")
    /\ UNCHANGED <<variant, _json, _temp, _operation_token, issued, rcvd_token>>

\* the server's answer to what caller c has in flight
Answer(c) ==
    \/ RequestUnauthorized(c)
    \/ LoginUnauthorized(c)
    \/ \E st \in LoginStatus : LoginAnswered(c, st)
    \/ \E a \in Answers : RequestAnswered(c, a[1], a[2])
    \/ \E a \in BadAnswers : RequestUndecodable(c, a[1], a[2])

Next ==
    \E c \in Callers :
        \/ update(c)
        \/ \E m \in HvacInputs : set_hvac_mode(c, m)
        \/ \E p \in PresetInputs : set_preset_mode(c, p)
        \/ \E f \in FanInputs : set_fan_mode(c, f)
        \/ \E s \in SwingInputs : set_swing_mode(c, s)
        \/ \E t \in TempInputs : set_temperature(c, t)
        \/ Answer(c)

Spec == Init /\ [][Next]_vars

\* every request in flight is answered, with whatever status
FairSpec == Spec /\ \A c \in Callers : WF_vars(Answer(c))

---------------------------------------------------------------------------
(* Steps and states the claims speak of *)

Whitelist == {"nanoex", "operation_status", "airquality", "wind_volume",
              "temperature", "operation_mode", "wind_direction",
              "timer_value", "air_flow", "wind_direction_horizon"}
TokenKeys == {"operation_token", "appliance_id"}

\* caller c is inside a setter: from its change of self._json to the end of
\* _set_json on the response
Writing(c) == pc[c] # "idle" /\ call[c].op \in Setters

\* caller c is inside update
Refreshing(c) == pc[c] # "idle" /\ call[c].op = "update"

\* the step in which the write protocol of caller c builds a payload and
\* issues its PUT
PutBuilt(c) == pc[c] = "idle" /\ pc'[c] = "request" /\ call'[c].op \in Setters

\* the step in which a login POST is sent for caller c
LoginSent(c) ==
    /\ pc'[c] = "login"
    /\ pc[c] = "request" \/ depth'[c] # depth[c]

\* the step in which _set_json stores the response to caller c
Stored(c) == pc[c] = "request" /\ pc'[c] = "idle" /\ outcome' = "ok"

NumZero(v) == IsNum(v) /\ Tenths(v) = 0
InRange(v) == IsNum(v) /\ 160 <= Tenths(v) /\ Tenths(v) <= 300

---------------------------------------------------------------------------
(* C1..C10 *)

\* C1: a call whose request is answered 401 logs in once and sends the
\* request again once; there is no second login and no second re-send (a
\* second 401 ends the call).  Stated on steps: a login is sent only for a
\* call that has not logged in yet (a second re-send would follow a second
\* login).
C1_RetryOnce ==
    [][\A c \in Callers : LoginSent(c) => ~relogin[c]]_vars

\* C2: every call returns to its caller, whatever the server answers.
C2_EveryCallReturns ==
    \A c \in Callers : (pc[c] # "idle") ~> (pc[c] = "idle")

\* C3: the keys of every PUT payload are whitelisted keys, plus
\* operation_token and appliance_id only when a token is cached as the
\* payload is built; nothing else of self._json is forwarded.
C3_PayloadWhitelisted ==
    /\ [](\A c \in Callers :
            Writing(c) => DOMAIN data[c] \subseteq Whitelist \cup TokenKeys)
    /\ [][\A c \in Callers :
            PutBuilt(c) =>
                DOMAIN data'[c] \cap TokenKeys =
                    IF _operation_token # None THEN TokenKeys ELSE {}]_vars

\* a PUT is in flight whose payload carries the token and leaves out the
\* fields of self._json that are not whitelisted
C3_Witness ==
    \E c \in Callers :
        /\ Writing(c)
        /\ pc[c] = "request"
        /\ {"inside_temp", "outside_temp", "device_errstatus"} \subseteq DOMAIN _json
        /\ DOMAIN data[c] =
               {"operation_status", "operation_mode", "temperature", "wind_volume",
                "wind_direction_horizon", "nanoex", "timer_value"} \cup TokenKeys

\* C4: a payload built after a response that carried operation_token = t
\* (t a token, not null) holds operation_token = t and appliance_id; a
\* payload built before any response carried an operation_token holds
\* neither.
C4_TokenPropagation ==
    [][\A c \in Callers :
         PutBuilt(c) =>
            /\ rcvd_token = Never => DOMAIN data'[c] \cap TokenKeys = {}
            /\ (rcvd_token # Never /\ Truthy(rcvd_token)) =>
                   /\ TokenKeys \subseteq DOMAIN data'[c]
                   /\ data'[c]["operation_token"] = rcvd_token
                   /\ data'[c]["appliance_id"] = _appliance_id]_vars

\* a PUT in flight carries the token "abc" that a response brought
C4_Witness ==
    \E c \in Callers :
        /\ Writing(c)
        /\ rcvd_token = PyStr("abc")
        /\ Get(data[c], "operation_token") = PyStr("abc")
        /\ Get(data[c], "appliance_id") = _appliance_id

\* the target the write protocol of caller c starts from
TargetAtWrite(c) ==
    IF call'[c].op = "set_temperature" THEN call'[c].arg ELSE _temp

C6_AsClaimed ==
    [][\A c \in Callers : PutBuilt(c) => InRange(_temp')]_vars

\* C6 amended: whenever the write protocol issues a PUT in one of the four
\* modes the cached target is in [16, 30].
C6_TargetClampedInTempModes ==
    [][\A c \in Callers :
         (PutBuilt(c) /\ data'[c]["operation_mode"] \in TempModes)
            => InRange(_temp')]_vars

\* set_temperature(40.0) in Heating has issued its PUT and the target is 30
C6_Witness ==
    \E c \in Callers :
        /\ pc[c] = "request"
        /\ call[c].op = "set_temperature"
        /\ call[c].arg = PyFloat(400)
        /\ Get(data[c], "operation_mode") = PyStr("Heating")
        /\ _temp = PyInt(30)

\* C7: storing a response sets the cached target to the temperature field of
\* the response, unless that field is numeric zero, which leaves the target
\* as it was; so a response never turns the target into zero.
C7_ZeroKeepsTarget ==
    [][\A c \in Callers :
         Stored(c) =>
            /\ _temp' = IF NumZero(Get(_json', "temperature"))
                        THEN _temp ELSE Get(_json', "temperature")
            /\ NumZero(_temp') => NumZero(_temp)]_vars

\* a response with temperature 0 has been stored and the target the user set
\* (40.0) is still cached
C7_Witness ==
    /\ outcome = "ok"
    /\ Get(_json, "temperature") = PyInt(0)
    /\ _temp = PyFloat(400)

\* C8: at most one caller is inside a setter at any time.
C8_OneWriteInFlight ==
    Cardinality({c \in Callers : Writing(c)}) <= 1

\* C9: commands are applied in issue order: the response to a setter is
\* stored only when no setter issued before it is still under way.
C9_Fifo ==
    [][\A c, d \in Callers :
         (Stored(c) /\ Writing(c) /\ Writing(d) /\ d # c)
            => call[c].seq < call[d].seq]_vars

\* C10: the response to a refresh is never stored while a setter is under way.
C10_NoRefreshDuringWrite ==
    [][\A c, d \in Callers :
         (Stored(c) /\ Refreshing(c) /\ d # c) => ~Writing(d)]_vars

---------------------------------------------------------------------------
(* C11..C20 *)

\* the value a setter is called with has no key in the setter's table (the
\* values that switch off are looked up in no table)
Unmapped(v, op, arg) ==
    CASE op = "set_hvac_mode" ->
            arg # HVAC_MODE_OFF /\ get_key(_HVAC_MODES(v), arg) = None
      [] op = "set_preset_mode" ->
            /\ arg \notin {HVAC_MODE_OFF, PyStr("ofu")}
            /\ get_key(_PRESET_MODES(v), arg) = None
      [] op = "set_fan_mode" -> get_key(_FAN_MODES, arg) = None
      [] op = "set_swing_mode" -> get_key(_SWING_MODES, arg) = None
      [] OTHER -> FALSE

\* C11: a setter called with a value that has no vendor key fails at once:
\* no HTTP request is ever in flight for such a call.
C11_UnmappedRejected ==
    \A c \in Callers :
        pc[c] # "idle" => ~Unmapped(variant, call[c].op, call[c].arg)

\* the step in which the call of caller c ends because the body of the
\* response does not decode to an object
Undecoded(c) ==
    /\ pc[c] = "request"
    /\ pc'[c] = "idle"
    /\ outcome' \in {"JSONDecodeError", "AttributeError"}

\* C12: when the body of the response to a GET or PUT cannot be decoded, the
\* call ends in an error and self._json is what it was when the call started,
\* for update and for every setter.
C12_DecodeLeavesState ==
    [][\A c \in Callers : Undecoded(c) => _json' = call[c].before]_vars

\* the step in which the request layer returns a response to the GET or PUT
\* of caller c and the call ends
Returned(c) == pc[c] = "request" /\ pc'[c] = "idle"

\* C13: a response whose status is neither 200 nor 401 ends the call with an
\* HttpError and its body is not stored: self._json, the token and the target
\* stay as they are.
C13_ErrorStatusSurfaced ==
    [][\A c \in Callers :
         (Returned(c) /\ result'.status_code # 200) =>
            /\ outcome' = "HttpError"
            /\ UNCHANGED <<_json, _operation_token, _temp>>]_vars

\* C14: when the server rejects the login of a re-authentication, the call in
\* progress ends with an AuthError: it does not go on to post the login or to
\* send its request again.
C14_RejectedLoginSurfaced ==
    [][\A c \in Callers : \A status \in LoginStatus \ {200} :
         LoginAnswered(c, status) =>
            /\ pc'[c] = "idle"
            /\ outcome' = "AuthError"]_vars

\* C15: every key k of _HVAC_MODES is the key get_key finds for the value
\* the table maps k to; and a mode of the table that set_hvac_mode has
\* written is the mode the property hvac_mode reads back.
C15_ModeTableRoundTrip ==
    /\ [](\A i \in 1..Len(_HVAC_MODES(variant)) :
            get_key(_HVAC_MODES(variant), _HVAC_MODES(variant)[i][2])
                = _HVAC_MODES(variant)[i][1])
    /\ [][\A c \in Callers :
            (/\ PutBuilt(c)
             /\ call'[c].op = "set_hvac_mode"
             /\ call'[c].arg # HVAC_MODE_OFF
             /\ ~Unmapped(variant, call'[c].op, call'[c].arg))
                => hvac_mode_property(variant, _json') = call'[c].arg]_vars

\* set_hvac_mode("cool") has written the key "Cooling" and hvac_mode reads
\* "cool"
C15_Witness ==
    \E c \in Callers :
        /\ pc[c] = "request"
        /\ call[c].op = "set_hvac_mode"
        /\ call[c].arg = PyStr("cool")
        /\ Get(_json, "operation_mode") = PyStr("Cooling")
        /\ hvac_mode_property(variant, _json) = PyStr("cool")

\* C16: the outside temperature among the attributes is None when the cached
\* outside_temp is 999 and is the cached outside_temp, as it is, for every
\* other value (a cached state without the field reads None).
C16_OutsideTempSentinel ==
    LET cached == Get(_json, "outside_temp")
    IN  /\ cached = PyInt(999) => outside_temp_attribute(_json) = None
        /\ cached # PyInt(999) => outside_temp_attribute(_json) = cached
        /\ outside_temp_attribute(_json) = None
               <=> (cached = PyInt(999) \/ "outside_temp" \notin DOMAIN _json)

\* a status object with outside_temp 999 is cached and the attribute is None
C16_Witness ==
    /\ "outside_temp" \in DOMAIN _json
    /\ _json["outside_temp"] = PyInt(999)
    /\ outside_temp_attribute(_json) = None

\* the value switches the appliance off: off for set_hvac_mode, off or the
\* label of "Stop" for set_preset_mode
SwitchesOff(op, arg) ==
    \/ op = "set_hvac_mode" /\ arg = HVAC_MODE_OFF
    \/ op = "set_preset_mode" /\ arg \in {HVAC_MODE_OFF, PyStr("ofu")}

\* the table set_hvac_mode / set_preset_mode looks its value up in
ModeTable(v, op) ==
    IF op = "set_hvac_mode" THEN _HVAC_MODES(v) ELSE _PRESET_MODES(v)

\* C17: as the PUT of set_hvac_mode or set_preset_mode is built, a value that
\* switches off has set operation_status to False and left operation_mode as
\* it was; any other value of the table has set operation_status to True and
\* operation_mode to the key of the value.
C17_ModeSetterEffect ==
    [][\A c \in Callers :
         (PutBuilt(c) /\ call'[c].op \in {"set_hvac_mode", "set_preset_mode"}) =>
            IF SwitchesOff(call'[c].op, call'[c].arg)
            THEN /\ _json'["operation_status"] = PyBool(FALSE)
                 /\ "operation_mode" \in DOMAIN _json
                 /\ _json'["operation_mode"] = _json["operation_mode"]
            ELSE ~Unmapped(variant, call'[c].op, call'[c].arg) =>
                 /\ _json'["operation_status"] = PyBool(TRUE)
                 /\ _json'["operation_mode"] =
                        get_key(ModeTable(variant, call'[c].op), call'[c].arg)
                 /\ _json'["operation_mode"] # None]_vars

\* set_preset_mode with the label of "Stop" has built its PUT: the status is
\* False and the mode is still the "Heating" of the last refresh
C17_Witness ==
    \E c \in Callers :
        /\ pc[c] = "request"
        /\ call[c].op = "set_preset_mode"
        /\ call[c].arg = PyStr("ofu")
        /\ Get(call[c].before, "operation_status") = PyBool(TRUE)
        /\ Get(call[c].before, "operation_mode") = PyStr("Heating")
        /\ Get(_json, "operation_status") = PyBool(FALSE)
        /\ Get(_json, "operation_mode") = PyStr("Heating")

\* C18: the response to a PUT is stored as the response to a GET is: by
\* either, self._json becomes the response object and nothing else (no field
\* of the state before survives), the token becomes the response's if it
\* carries one, and the target follows the rule of C7.
C18_WriteStoredAsRefresh ==
    [][\A c \in Callers :
         Stored(c) =>
            /\ _json' \in Bodies
            /\ _operation_token' =
                   IF "operation_token" \in DOMAIN _json'
                   THEN _json'["operation_token"] ELSE _operation_token
            /\ _temp' = IF NumZero(Get(_json', "temperature"))
                        THEN _temp ELSE Get(_json', "temperature")]_vars

\* the response to a PUT, status 200, has been stored.  The update of caller
\* 2, still in flight, started from what set_hvac_mode("cool") of caller 1 had
\* made of the empty state, so the one call that has ended is that setter; and
\* self._json is a status object of the server with its token: the
\* temperature the setter wrote as a string is gone
C18_Witness ==
    /\ issued = 2
    /\ pc[1] = "idle"
    /\ pc[2] = "request"
    /\ call[2].op = "update"
    /\ call[2].before = [operation_status |-> PyBool(TRUE),
                         operation_mode |-> PyStr("Cooling"),
                         temperature |-> PyStr("25")]
    /\ outcome = "ok"
    /\ result = [status_code |-> 200]
    /\ _json \in Bodies
    /\ Get(_json, "operation_token") = PyStr("abc")
    /\ _operation_token = PyStr("abc")
    /\ Get(_json, "temperature") = PyFloat(220)
    /\ _temp = PyFloat(220)

C20_NoPutWithoutMode ==
    /\ [](\A c \in Callers :
            Writing(c) =>
                {"operation_mode", "temperature"} \subseteq DOMAIN data[c])
    /\ [][\A c \in Callers :
            (PutBuilt(c) /\ "operation_mode" \notin DOMAIN _json) =>
                /\ call'[c].op \in {"set_hvac_mode", "set_preset_mode"}
                /\ ~SwitchesOff(call'[c].op, call'[c].arg)]_vars

\* a setter has ended with KeyError on a cached state without operation_mode
\* and no request is in flight
C20_Witness ==
    /\ variant = "sync"
    /\ outcome = "KeyError"
    /\ "operation_mode" \notin DOMAIN _json
    /\ \A c \in Callers : pc[c] = "idle"
    /\ result = NoResult

(* C21 *)

\* C21: the cached target temperature is always a number, whatever the
\* responses stored were (temperature absent, null or not a number), so the
\* clamp of a later write in a temperature mode is always defined: no write
\* of the synchronous entity ends in a TypeError.
C21_TargetIsNumber ==
    /\ IsNum(_temp)
    /\ variant = "sync" => outcome # "TypeError"

(* C22 *)

\* the raw field set_fan_mode / set_swing_mode writes, and the table it looks
\* the value up in
WindField(op) ==
    IF op = "set_fan_mode" THEN "wind_volume" ELSE "wind_direction_horizon"
WindTable(op) == IF op = "set_fan_mode" THEN _FAN_MODES ELSE _SWING_MODES

\* C22: when set_fan_mode (set_swing_mode) builds its PUT, self._json differs
\* from what it was before the call only in wind_volume (resp.
\* wind_direction_horizon), which holds the reverse lookup of the argument,
\* and in temperature; the payload carries every other whitelisted field
\* exactly as it was cached before the call, and the cached token, itself
\* unchanged, if it carries a token.
C22_WindSetterFrame ==
    [][\A c \in Callers :
         (PutBuilt(c) /\ call'[c].op \in {"set_fan_mode", "set_swing_mode"}) =>
            LET f == WindField(call'[c].op)
                payload == data'[c]
            IN  /\ call'[c].before = _json
                /\ DOMAIN _json' = DOMAIN _json \cup {f, "temperature"}
                /\ \A k \in DOMAIN _json \ {f, "temperature"} :
                        _json'[k] = _json[k]
                /\ _json'[f] = get_key(WindTable(call'[c].op), call'[c].arg)
                /\ payload[f] = _json'[f]
                /\ \A k \in Whitelist \ {f, "temperature"} :
                        /\ k \in DOMAIN payload <=> k \in DOMAIN _json
                        /\ k \in DOMAIN payload => payload[k] = _json[k]
                /\ _operation_token' = _operation_token
                /\ "operation_token" \in DOMAIN payload =>
                        payload["operation_token"] = _operation_token]_vars

\* a set_swing_mode("hidari") in flight after a refresh that cached a running
\* unit and a token: its payload carries the new wind_direction_horizon and
\* the status, the mode, the wind_volume and the token cached before the call
C22_Witness ==
    \E c \in Callers :
        /\ pc[c] = "request"
        /\ call[c].op = "set_swing_mode"
        /\ call[c].arg = PyStr("hidari")
        /\ Get(call[c].before, "operation_mode") = PyStr("Heating")
        /\ Get(call[c].before, "operation_status") = PyBool(TRUE)
        /\ Get(call[c].before, "wind_direction_horizon") = PyStr("auto")
        /\ Get(call[c].before, "wind_volume") = PyInt(2)
        /\ _operation_token = PyStr("abc")
        /\ Get(data[c], "wind_direction_horizon") = PyStr("to_left")
        /\ Get(data[c], "wind_volume") = PyInt(2)
        /\ Get(data[c], "operation_mode") = PyStr("Heating")
        /\ Get(data[c], "operation_status") = PyBool(TRUE)
        /\ Get(data[c], "operation_token") = PyStr("abc")

====
